---- MODULE Spec2Model ----
(***************************************************************************)
(* Model of attenuation.core.registry (the version-aware model registry)   *)
(* and attenuation.core.units (the unit normalizer).                       *)
(*                                                                         *)
(* Strings that the code inspects character by character (recommendation   *)
(* identifiers) are sequences of one-character strings.  Version labels,   *)
(* implementation handles and unit names are only compared for equality    *)
(* by the code and are plain strings.                                      *)
(***************************************************************************)
EXTENDS Integers, Sequences, FiniteSets, TLC

VARIABLES
    bindings,        \* _REGISTRY : (rec, version) -> class
    aliases,         \* _ALIASES  : (rec, alias_version) -> (rec, version)
    lastRegistered,  \* history: canonical key -> class of the most recent successful register_class
    lastAliased,     \* history: canonical key -> target version of the most recent successful alias
    last,            \* the most recent registry call: [op, rec, outcome]
    ctx,             \* the input context handed to normalize_inputs
    result           \* what normalize_inputs did with ctx

vars == <<bindings, aliases, lastRegistered, lastAliased, last, ctx, result>>

-----------------------------------------------------------------------------
(* Bounds *)

\* longest recommendation string over Alphabet that normalization is checked on
MaxRecLen == 4

\* largest magnitude a context field carries
MaxMag == 1

-----------------------------------------------------------------------------
(* How a call ends *)

Return(v) == [kind |-> "return", val |-> v]

Raise(e) == [kind |-> "raise", val |-> e]

\* raise ValueError(...) of _normalize_rec: the spec's InvalidIdentifier
InvalidIdentifier == Raise("ValueError")

\* raise KeyError(...) of resolve: the spec's NotFound
NotFound == Raise("KeyError")

\* raise ValueError(...) of _as_pint: the spec's ConversionError
ConversionError == Raise("ValueError")

-----------------------------------------------------------------------------
(* Recommendation strings *)

Digit == {"0", "8"}

Whitespace == {" "}

Alphabet == {"P", "p", ".", "Q", "a"} \cup Digit \cup Whitespace

RecStrings == UNION {[1..n -> Alphabet] : n \in 0..MaxRecLen}

\* str.lstrip() / str.rstrip(), together str.strip()
RECURSIVE lstrip(_)
lstrip(s) == IF s # <<>> /\ Head(s) \in Whitespace THEN lstrip(Tail(s)) ELSE s

RECURSIVE rstrip(_)
rstrip(s) ==
    IF s # <<>> /\ s[Len(s)] \in Whitespace
    THEN rstrip(SubSeq(s, 1, Len(s) - 1))
    ELSE s

strip(s) == rstrip(lstrip(s))

\* the longest prefix of s made of digits: what the greedy \d+ consumes
RECURSIVE digit_run(_)
digit_run(s) ==
    IF s # <<>> /\ Head(s) \in Digit THEN <<Head(s)>> \o digit_run(Tail(s)) ELSE <<>>

NoMatch == [matched |-> FALSE, group1 |-> <<>>]

\* re.match semantics: the pattern [Pp]\.?(\d+) must match at the start
\* of the text; anything may follow it.
re_match_prefix(text) ==
    IF text = <<>> \/ Head(text) \notin {"P", "p"} THEN NoMatch
    ELSE LET afterP   == Tail(text)
             afterDot == IF afterP # <<>> /\ Head(afterP) = "." THEN Tail(afterP) ELSE afterP
             digits   == digit_run(afterDot)
         IN  IF digits = <<>> THEN NoMatch
             ELSE [matched |-> TRUE, group1 |-> digits]

\* re.fullmatch(r"[Pp]\.?(\d+)", text): read the text left to right; the
\* match succeeds only when the digits run to the end of the text.
re_fullmatch(text) ==
    IF text = <<>> \/ Head(text) \notin {"P", "p"} THEN NoMatch
    ELSE LET afterP   == Tail(text)
             afterDot == IF afterP # <<>> /\ Head(afterP) = "." THEN Tail(afterP) ELSE afterP
             digits   == digit_run(afterDot)
         IN  IF digits = <<>> \/ digits # afterDot THEN NoMatch
             ELSE [matched |-> TRUE, group1 |-> digits]

\* _normalize_rec with the dot and the case of the input kept
normalize_rec_keep_spelling(rec) ==
    LET text == strip(rec)
        match == re_fullmatch(text)
    IN  IF ~match.matched THEN InvalidIdentifier ELSE Return(text)

\* Return(canonical string) or the ValueError
_normalize_rec(rec) ==
    LET text == strip(rec)
        match == re_fullmatch(text)
    IN  IF ~match.matched THEN InvalidIdentifier
        ELSE Return(<<"P", ".">> \o match.group1)

-----------------------------------------------------------------------------
(* Registry *)

\* the recommendation strings callers pass to the registry
RecInputs ==
    { <<"P", ".", "8">>, <<"p", "8">>, <<" ", "P", "8", " ">>,
      <<"Q", ".", "8">>, <<"P", "8", "a">>, <<>> }

Versions == {"v1", "v2", "v3"}

\* implementation handles; ImplFalsy is a handle whose truth value is False
\* (a class whose metaclass defines __bool__ or __len__, or any falsy object:
\* register_class stores whatever it is given)
Impls == {"ImplA", "ImplFalsy"}

\* Python truth value of the result of _REGISTRY.get(key)
truthy(cls) == cls \notin {"None", "ImplFalsy"}

\* d[key] = value on a dict
dict_set(d, key, value) ==
    [k \in DOMAIN d \cup {key} |-> IF k = key THEN value ELSE d[k]]

\* d.get(key, default)
dict_get(d, key, default) == IF key \in DOMAIN d THEN d[key] ELSE default

NoCall == [op |-> "none", rec |-> <<>>, outcome |-> Return("None")]

UnitsIdle == UNCHANGED <<ctx, result>>

register_class(rec, version, cls) ==
    LET rec_norm == _normalize_rec(rec) IN
    /\ last' = [op |-> "register_class", rec |-> rec,
                outcome |-> IF rec_norm.kind = "raise" THEN rec_norm ELSE Return("None")]
    /\ IF rec_norm.kind = "raise"
       THEN UNCHANGED <<bindings, lastRegistered>>
       ELSE /\ bindings' = dict_set(bindings, <<rec_norm.val, version>>, cls)
            /\ lastRegistered' = dict_set(lastRegistered, <<rec_norm.val, version>>, cls)
    /\ UNCHANGED aliases
    /\ UNCHANGED lastAliased
    /\ UnitsIdle

alias(rec, alias_version, target_version) ==
    LET rec_norm == _normalize_rec(rec) IN
    /\ last' = [op |-> "alias", rec |-> rec,
                outcome |-> IF rec_norm.kind = "raise" THEN rec_norm ELSE Return("None")]
    /\ IF rec_norm.kind = "raise"
       THEN UNCHANGED <<aliases, lastAliased>>
       ELSE /\ aliases' = dict_set(aliases, <<rec_norm.val, alias_version>>,
                                   <<rec_norm.val, target_version>>)
            /\ lastAliased' = dict_set(lastAliased, <<rec_norm.val, alias_version>>,
                                       target_version)
    /\ UNCHANGED bindings
    /\ UNCHANGED lastRegistered
    /\ UnitsIdle

\* the key resolve looks up in _REGISTRY (rec_norm is a canonical string)
resolved_key(rec_norm, version) ==
    dict_get(aliases, <<rec_norm, version>>, <<rec_norm, version>>)

\* what resolve(rec, version) returns or raises in the current state
resolve_result(rec, version) ==
    LET rec_norm == _normalize_rec(rec) IN
    IF rec_norm.kind = "raise" THEN rec_norm
    ELSE LET key == resolved_key(rec_norm.val, version)
             cls == dict_get(bindings, key, "None")
         IN  IF ~truthy(cls) THEN NotFound ELSE Return(cls)

\* resolve remembering an alias hit by binding the alias key itself
resolve_memoizing(rec, version) ==
    LET rec_norm == _normalize_rec(rec)
        outcome == resolve_result(rec, version)
    IN  /\ last' = [op |-> "resolve", rec |-> rec, outcome |-> outcome]
        /\ bindings' = IF outcome.kind = "return"
                       THEN dict_set(bindings, <<rec_norm.val, version>>, outcome.val)
                       ELSE bindings
        /\ UNCHANGED <<aliases, lastRegistered, lastAliased>>
        /\ UnitsIdle

resolve(rec, version) ==
    /\ last' = [op |-> "resolve", rec |-> rec, outcome |-> resolve_result(rec, version)]
    /\ bindings' = bindings
    /\ aliases' = aliases
    /\ UNCHANGED <<lastRegistered, lastAliased>>
    /\ UnitsIdle

-----------------------------------------------------------------------------
(* Unit normalizer *)

\* U_CANON
U_CANON ==
    [frequency |-> "hertz", angle |-> "degree",
     temperature |-> "kelvin", pressure |-> "kilopascal"]

\* the units of the pint registry the model uses: dimension, and size in
\* canonical units of that dimension
UnitTable ==
    [hertz      |-> [dim |-> "frequency",   scale |-> 1],
     kilohertz  |-> [dim |-> "frequency",   scale |-> 1000],
     degree     |-> [dim |-> "angle",       scale |-> 1],
     turn       |-> [dim |-> "angle",       scale |-> 360],
     kelvin     |-> [dim |-> "temperature", scale |-> 1],
     kilopascal |-> [dim |-> "pressure",    scale |-> 1],
     bar        |-> [dim |-> "pressure",    scale |-> 100]]

\* the unit a unit name parses to ("Hz", "K", "kPa" are the symbols of
\* hertz, kelvin, kilopascal)
parse_unit(name) ==
    CASE name = "Hz"  -> "hertz"
      [] name = "K"   -> "kelvin"
      [] name = "kPa" -> "kilopascal"
      [] OTHER        -> name

\* values a context field can hold; a magnitude is a sequence of numbers,
\* of length one unless it is an array
NoneValue == [tag |-> "None", mag |-> <<>>, unit |-> "", ndarray |-> FALSE]

\* a value no Quantity can wrap (malformed input)
DictValue == [tag |-> "dict", mag |-> <<>>, unit |-> "", ndarray |-> FALSE]

Scalar(m) == [tag |-> "scalar", mag |-> <<m>>, unit |-> "", ndarray |-> FALSE]

\* a python list of numbers
List(ms) == [tag |-> "list", mag |-> ms, unit |-> "", ndarray |-> FALSE]

\* np.asarray(x) of a list
asarray(x) == [tag |-> "ndarray", mag |-> x.mag, unit |-> "", ndarray |-> TRUE]

QuantityOf(ms, u, arr) == [tag |-> "Quantity", mag |-> ms, unit |-> u, ndarray |-> arr]

Quantity(m, u) == QuantityOf(<<m>>, u, FALSE)

Magnitudes == 1..MaxMag

\* the units callers tag their values with
InputUnits == {"kilohertz", "turn", "bar"}

FieldValues ==
    {NoneValue, DictValue, List(<<1, MaxMag>>)}
        \cup {Scalar(m) : m \in Magnitudes}
        \cup {Quantity(m, u) : m \in Magnitudes, u \in InputUnits}

Contexts ==
    [frequency_hz : FieldValues, elevation_deg : FieldValues,
     latitude_deg : FieldValues, longitude_deg : FieldValues,
     temperature_k : FieldValues, pressure_kpa : FieldValues]

\* values of the output mapping: a magnitude (a float or a numpy array), or None
NumberOf(ms, arr) == [null |-> FALSE, mag |-> ms, ndarray |-> arr]

Number(m) == NumberOf(<<m>>, FALSE)

Null == [null |-> TRUE, mag |-> <<>>, ndarray |-> FALSE]

\* Quantity.to(unit): DimensionalityError when the dimensions differ
Q_to(q, unit) ==
    LET src == UnitTable[q.unit]
        dst == UnitTable[parse_unit(unit)]
    IN  IF src.dim # dst.dim THEN Raise("DimensionalityError")
        ELSE Return(QuantityOf([i \in 1..Len(q.mag) |-> (q.mag[i] * src.scale) \div dst.scale],
                               parse_unit(unit), q.ndarray))

\* Q_(x, unit): a Quantity cannot wrap None or a dict (TypeError)
Q_new(x, unit) ==
    IF x.tag \in {"None", "dict"} THEN Raise("TypeError")
    ELSE Return(QuantityOf(x.mag, parse_unit(unit), x.ndarray))

\* _as_pint: every exception of the try block becomes the ValueError
_as_pint(x, unit) ==
    LET r == IF x.tag = "Quantity" THEN Q_to(x, unit)
             ELSE IF x.tag = "list" THEN Q_new(asarray(x), unit)
             ELSE Q_new(x, unit)
    IN  IF r.kind = "raise" THEN ConversionError ELSE r

\* the conversion with None passed through as None, as opt does
to_magnitude_none_passthrough(x, unit, to_unit) ==
    IF x.tag = "None" THEN Return(Null)
    ELSE LET q == _as_pint(x, unit) IN
         IF q.kind = "raise" THEN q
         ELSE LET t == Q_to(q.val, to_unit) IN
              IF t.kind = "raise" THEN t ELSE Return(NumberOf(t.val.mag, t.val.ndarray))

\* _as_pint(x, unit).to(to_unit).magnitude
to_magnitude(x, unit, to_unit) ==
    LET q == _as_pint(x, unit) IN
    IF q.kind = "raise" THEN q
    ELSE LET t == Q_to(q.val, to_unit) IN
         IF t.kind = "raise" THEN t ELSE Return(NumberOf(t.val.mag, t.val.ndarray))

\* opt defaulting an absent field to zero (x or 0) before converting
opt_defaults_zero(x, unit, to_unit) ==
    IF x.tag = "None" THEN to_magnitude(Scalar(0), unit, to_unit)
    ELSE to_magnitude(x, unit, to_unit)

\* the inner function opt of normalize_inputs
opt(x, unit, to_unit) ==
    IF x.tag = "None" THEN Return(Null) ELSE to_magnitude(x, unit, to_unit)

\* normalize_inputs(c): the statements run in order, the first exception
\* ends the call
normalize_inputs_result(c) ==
    LET f == to_magnitude(c.frequency_hz, U_CANON.frequency, "Hz")
        e == to_magnitude(c.elevation_deg, U_CANON.angle, "degree")
        a == to_magnitude(c.latitude_deg, U_CANON.angle, "degree")
        o == to_magnitude(c.longitude_deg, U_CANON.angle, "degree")
        t == opt(c.temperature_k, U_CANON.temperature, "K")
        p == opt(c.pressure_kpa, U_CANON.pressure, "kPa")
    IN  CASE f.kind = "raise" -> f
          [] e.kind = "raise" -> e
          [] a.kind = "raise" -> a
          [] o.kind = "raise" -> o
          [] t.kind = "raise" -> t
          [] p.kind = "raise" -> p
          [] OTHER -> Return([frequency_hz  |-> f.val, elevation_deg |-> e.val,
                              latitude_deg  |-> a.val, longitude_deg |-> o.val,
                              temperature_k |-> t.val, pressure_kpa  |-> p.val])

NotCalled == [kind |-> "none", val |-> "None"]

RegistryIdle == UNCHANGED <<bindings, aliases, lastRegistered, lastAliased, last>>

normalize_inputs ==
    /\ result = NotCalled
    /\ result' = normalize_inputs_result(ctx)
    /\ UNCHANGED ctx
    /\ RegistryIdle

-----------------------------------------------------------------------------
(* Specifications *)

EmptyDict == <<>>

InitRegistry ==
    /\ bindings = EmptyDict
    /\ aliases = EmptyDict
    /\ lastRegistered = EmptyDict
    /\ lastAliased = EmptyDict
    /\ last = NoCall

\* a context for the behaviours that only use the registry
IdleContext ==
    [frequency_hz |-> Scalar(1), elevation_deg |-> Scalar(1),
     latitude_deg |-> Scalar(1), longitude_deg |-> Scalar(1),
     temperature_k |-> NoneValue, pressure_kpa |-> NoneValue]

\* the registry: empty after import, then any calls in any order
Init ==
    /\ InitRegistry
    /\ ctx = IdleContext
    /\ result = NotCalled

Next ==
    \E rec \in RecInputs, version \in Versions :
        \/ \E cls \in Impls : register_class(rec, version, cls)
        \/ \E target_version \in Versions : alias(rec, version, target_version)
        \/ resolve(rec, version)

Spec == Init /\ [][Next]_vars

\* the unit normalizer: one call on any context
InitUnits ==
    /\ InitRegistry
    /\ ctx \in Contexts
    /\ result = NotCalled

NextUnits == normalize_inputs

SpecUnits == InitUnits /\ [][NextUnits]_vars

-----------------------------------------------------------------------------
(* Vocabulary of the properties *)

Returns(o, v) == o.kind = "return" /\ o.val = v

Fails(o, e) == o.kind = "raise" /\ o.val = e

\* core is an upper- or lower-case P, an optional dot, one or more digits
IsRecPattern(core) ==
    /\ Len(core) >= 2
    /\ core[1] \in {"P", "p"}
    /\ \E k \in 1..2 :
          /\ k = 2 => core[2] = "."
          /\ Len(core) > k
          /\ \A m \in (k + 1)..Len(core) : core[m] \in Digit

\* s is such a core between surrounding whitespace
MatchesRecPattern(s) ==
    \E i, j \in 0..Len(s) :
        /\ i + j <= Len(s)
        /\ \A m \in 1..i : s[m] \in Whitespace
        /\ \A m \in (Len(s) - j + 1)..Len(s) : s[m] \in Whitespace
        /\ IsRecPattern(SubSeq(s, i + 1, Len(s) - j))

IsDigit(c) == c \in Digit

\* the canonical form "P.<digits>" of a string that matches the pattern
CanonicalOf(s) == <<"P", ".">> \o SelectSeq(s, IsDigit)

IsCanonical(r) ==
    /\ Len(r) >= 3
    /\ r[1] = "P"
    /\ r[2] = "."
    /\ \A m \in 3..Len(r) : r[m] \in Digit

\* the spellings callers use for the canonical recommendation r
Spellings(r) == {rec \in RecInputs : MatchesRecPattern(rec) /\ CanonicalOf(rec) = r}

DigitStrings == UNION {[1..n -> Digit] : n \in 1..MaxRecLen}

Paddings(s) == {s, <<" ">> \o s, s \o <<" ">>, <<" ">> \o s \o <<" ">>}

\* every string over Alphabet that does not match the pattern is refused by
\* normalization
NonMatchingRefused ==
    \A s \in RecStrings :
        ~MatchesRecPattern(s) => Fails(_normalize_rec(s), "ValueError")

\* the four spellings of every digit string, padded or not, normalize to
\* "P." followed by the same digits
SpellingsNormalizeAlike ==
    \A d \in DigitStrings :
        \A prefix \in {<<"P", ".">>, <<"P">>, <<"p", ".">>, <<"p">>} :
            \A s \in Paddings(prefix \o d) :
                Returns(_normalize_rec(s), <<"P", ".">> \o d)

RequiredFields == {"frequency_hz", "elevation_deg", "latitude_deg", "longitude_deg"}

\* x converts to the canonical unit of dimension dim
Convertible(x, dim) ==
    \/ x.tag \in {"scalar", "list"}
    \/ x.tag = "Quantity" /\ UnitTable[x.unit].dim = dim

RequiredValid(c) ==
    /\ Convertible(c.frequency_hz, "frequency")
    /\ Convertible(c.elevation_deg, "angle")
    /\ Convertible(c.latitude_deg, "angle")
    /\ Convertible(c.longitude_deg, "angle")

-----------------------------------------------------------------------------
(* Properties *)

\* C1: once alias(rec, a, t) and register(rec, t, impl) are the most recent
\* alias for (rec, a) and the most recent register for (rec, t), in either
\* order, resolve(rec, a) returns impl, under every spelling of rec.
C1_AliasAndRegisterInEitherOrder ==
    \A k \in DOMAIN lastAliased :
        LET t == <<k[1], lastAliased[k]>> IN
        t \in DOMAIN lastRegistered =>
            \A rec \in Spellings(k[1]) :
                Returns(resolve_result(rec, k[2]), lastRegistered[t])

\* C2: last write wins: when the most recent register for a key stored implB
\* and the key has no alias, resolve returns implB; and a register with a
\* valid recommendation never fails, whatever is already bound.
C2_LastWriteWins ==
    /\ \A k \in DOMAIN lastRegistered :
          k \notin DOMAIN lastAliased =>
              \A rec \in Spellings(k[1]) :
                  Returns(resolve_result(rec, k[2]), lastRegistered[k])
    /\ (last.op = "register_class" /\ MatchesRecPattern(last.rec))
          => Returns(last.outcome, "None")

\* C3: resolve looks up aliases[(rec_norm, version)] when that entry exists
\* and (rec_norm, version) otherwise; it returns the handle bound under that
\* key whenever bindings has the key, and fails with NotFound exactly when
\* bindings has no entry for it.
C3_ResolveReturnsWhateverIsBound ==
    \A rec \in RecInputs, version \in Versions :
        MatchesRecPattern(rec) =>
            LET lit == <<CanonicalOf(rec), version>>
                key == IF lit \in DOMAIN aliases THEN aliases[lit] ELSE lit
                o   == resolve_result(rec, version)
            IN  /\ key \in DOMAIN bindings => Returns(o, bindings[key])
                /\ Fails(o, "KeyError") <=> key \notin DOMAIN bindings

\* C4: a recommendation string that does not match the pattern makes
\* register, alias and resolve fail with InvalidIdentifier, in every registry
\* state and whatever the other arguments are.
C4_InvalidIdentifierRejected ==
    /\ NonMatchingRefused
    /\ \A rec \in RecInputs, version \in Versions :
          ~MatchesRecPattern(rec) => Fails(resolve_result(rec, version), "ValueError")
    /\ (last.op \in {"register_class", "alias", "resolve"} /\ ~MatchesRecPattern(last.rec))
          => Fails(last.outcome, "ValueError")

\* C4: a call with an invalid recommendation has failed on a registry that
\* holds a binding.
C4_Witness ==
    /\ last.op = "resolve"
    /\ last.rec = <<"P", "8", "a">>
    /\ Fails(last.outcome, "ValueError")
    /\ DOMAIN bindings # {}
    /\ DOMAIN aliases # {}

\* C5: "P.d", "Pd", "p.d" and "pd", with or without surrounding whitespace,
\* all normalize to "P.d" with the digits kept verbatim, so a binding
\* registered under one spelling is returned by resolve under every other
\* spelling of the same digits and version.
C5_SpellingsShareOneBinding ==
    /\ SpellingsNormalizeAlike
    /\ \A k \in DOMAIN lastRegistered :
          k \notin DOMAIN lastAliased =>
              \A rec \in RecInputs :
                  (MatchesRecPattern(rec) /\ SelectSeq(rec, IsDigit) = SubSeq(k[1], 3, Len(k[1])))
                      => Returns(resolve_result(rec, k[2]), lastRegistered[k])

\* C6: every key of bindings, every key of aliases and every alias target
\* has a recommendation in canonical form "P.<digits>", and an alias entry
\* maps to a target with the same recommendation.
C6_KeysAreCanonical ==
    /\ \A k \in DOMAIN bindings : IsCanonical(k[1])
    /\ \A k \in DOMAIN aliases :
          /\ IsCanonical(k[1])
          /\ IsCanonical(aliases[k][1])
          /\ aliases[k][1] = k[1]

\* C6: a binding and an alias exist, the alias declared under a spelling
\* that is not canonical.
C6_Witness ==
    /\ last.op = "alias"
    /\ last.rec = <<"p", "8">>
    /\ Returns(last.outcome, "None")
    /\ DOMAIN bindings # {}
    /\ DOMAIN aliases # {}

\* C7: a resolve call, whether it returns an implementation or fails with
\* NotFound or InvalidIdentifier, leaves bindings and aliases as they were.
C7_ResolveDoesNotMutate ==
    [][last'.op = "resolve" => (bindings' = bindings /\ aliases' = aliases)]_vars

\* C7: resolve has returned an implementation it reached through an alias.
C7_Witness ==
    /\ last.op = "resolve"
    /\ last.outcome.kind = "return"
    /\ \E v \in Versions : <<CanonicalOf(last.rec), v>> \in DOMAIN aliases
    /\ \E v \in Versions : <<CanonicalOf(last.rec), v>> \notin DOMAIN bindings

\* C8: with the four required fields valid, an optional field that is None
\* comes out as None (not as zero) and causes no error: the call returns
\* unless the other optional field is itself unconvertible.
C8_AbsentOptionalStaysNull ==
    (result.kind # "none" /\ RequiredValid(ctx)) =>
        /\ (ctx.temperature_k = NoneValue
              /\ (ctx.pressure_kpa = NoneValue \/ Convertible(ctx.pressure_kpa, "pressure")))
                 => (result.kind = "return" /\ result.val.temperature_k = Null)
        /\ (ctx.pressure_kpa = NoneValue
              /\ (ctx.temperature_k = NoneValue \/ Convertible(ctx.temperature_k, "temperature")))
                 => (result.kind = "return" /\ result.val.pressure_kpa = Null)
        /\ (ctx.temperature_k = NoneValue /\ ctx.pressure_kpa = NoneValue)
                 => (/\ result.kind = "return"
                     /\ result.val.temperature_k = Null
                     /\ result.val.pressure_kpa = Null)

\* C8: normalize_inputs has returned for a context with a unit-tagged
\* frequency and both optional fields None.
C8_Witness ==
    /\ result.kind = "return"
    /\ ctx.frequency_hz = Quantity(1, "kilohertz")
    /\ result.val.frequency_hz = Number(1000)
    /\ ctx.temperature_k = NoneValue
    /\ ctx.pressure_kpa = NoneValue

\* C9: a None required field makes normalize_inputs fail with
\* ConversionError, and a returned output never has a null required field.
C9_NullRequiredFieldFails ==
    result.kind # "none" =>
        /\ (\E f \in RequiredFields : ctx[f] = NoneValue) => Fails(result, "ValueError")
        /\ result.kind = "return" => \A f \in RequiredFields : ~result.val[f].null

\* C9: normalize_inputs has failed on a context whose only defect is a
\* None latitude.
C9_Witness ==
    /\ Fails(result, "ValueError")
    /\ ctx.latitude_deg = NoneValue
    /\ Convertible(ctx.frequency_hz, "frequency")
    /\ Convertible(ctx.elevation_deg, "angle")
    /\ Convertible(ctx.longitude_deg, "angle")
    /\ ctx.temperature_k = NoneValue
    /\ ctx.pressure_kpa = NoneValue

\* C10: alias resolution is one hop and aliases take precedence: with
\* a -> b, b -> c, c bound to impl and b unbound, resolve(rec, a) fails with
\* NotFound while resolve(rec, b) returns impl; and a key with a literal
\* binding and an alias to an unbound target fails with NotFound.
C10_OneHopAliasFirst ==
    \A r \in {k[1] : k \in DOMAIN lastAliased} :
        \A rec \in Spellings(r) :
            /\ \A a, b, c \in Versions :
                  ( /\ a # b /\ b # c /\ a # c
                    /\ <<r, a>> \in DOMAIN lastAliased /\ lastAliased[<<r, a>>] = b
                    /\ <<r, b>> \in DOMAIN lastAliased /\ lastAliased[<<r, b>>] = c
                    /\ <<r, c>> \in DOMAIN lastRegistered
                    /\ <<r, b>> \notin DOMAIN lastRegistered )
                  => /\ Fails(resolve_result(rec, a), "KeyError")
                     /\ Returns(resolve_result(rec, b), lastRegistered[<<r, c>>])
            /\ \A a \in Versions :
                  ( /\ <<r, a>> \in DOMAIN lastRegistered
                    /\ <<r, a>> \in DOMAIN lastAliased
                    /\ <<r, lastAliased[<<r, a>>]>> \notin DOMAIN lastRegistered )
                  => Fails(resolve_result(rec, a), "KeyError")

====
